---- MODULE Spec2Model ----
(***************************************************************************)
(* The messaging core of backend/main.py: the messages table, the          *)
(* connected_users presence dictionary, the Socket.IO event handlers and   *)
(* the REST message endpoints.                                             *)
(***************************************************************************)
EXTENDS Integers, Sequences, FiniteSets, TLC

\* ---------------------------------------------------------------- bounds
MaxMessages == 2      \* rows the messages table may hold
NumUsers == 2         \* rows of the users table: ids 1..NumUsers
MaxUserId == 3        \* ids a request may name: 1..MaxUserId
MaxClock == 2         \* readings of datetime.utcnow: 1..MaxClock
MaxTasks == 1         \* requests in flight: suspended in sio.emit, or between
                      \* the query and the commit of mark_messages_read
MaxStored == 3        \* rows of the tables the summaries are computed for
MaxConcurrent == 2    \* send_message_api calls suspended at the same time

UserIds == 1..MaxUserId
users == 1..NumUsers
Sids == {"s1", "s2"}
Contents == {"a", "b"}
\* the content a POST /api/messages body may carry
Bodies == Contents \cup {""}
\* data.get('userId') / data.get('senderId') when the key is missing, None or 0
Falsy == 0
\* a bearer token is modelled by the userId its payload carries; Falsy is a
\* missing, malformed or expired token
Tokens == UserIds \cup {Falsy}
Unauthorized == 0

VARIABLES
    messages,          \* the messages table: a set of rows
    connected_users,   \* the presence dict, as its items(): <<user_id, socket_id>>
    clock,             \* the latest reading datetime.utcnow() returned
    sendTasks,         \* send_message_api calls suspended in their sio.emit
    markTasks,         \* mark_messages_read calls that ran their query
    response,          \* the HTTP response the last step returned, if any
    emits,             \* the sio.emit calls the last step made, in order
    last               \* the handler the last step ran: its name, caller, argument

vars == <<messages, connected_users, clock, sendTasks, markTasks, response, emits, last>>

\* ------------------------------------------------------------- the store
Max(S) == CHOOSE x \in S : \A y \in S : y <= x

\* mutant: the id of the latest row is handed out again
NewId_Reused == IF messages = {} THEN 1 ELSE Max({m.id : m \in messages})

\* Message.id: INTEGER PRIMARY KEY, assigned by the store on insert
NewId == IF messages = {} THEN 1 ELSE Max({m.id : m \in messages}) + 1

\* mutant: created_at is a reading of the sender's own clock, and the clock
\* of user 1 stands still
Message_CallerClock(id, sender, receiver, content, now) ==
    [id |-> id, sender_id |-> sender, receiver_id |-> receiver,
     content |-> content, is_read |-> 0,
     created_at |-> IF sender = 1 THEN 1 ELSE now]

\* mutant: the row is stored as already read
Message_ReadByDefault(id, sender, receiver, content, now) ==
    [id |-> id, sender_id |-> sender, receiver_id |-> receiver,
     content |-> content, is_read |-> 1, created_at |-> now]

\* mutant: sender_id and receiver_id are passed the wrong way round
Message_SwappedParties(id, sender, receiver, content, now) ==
    [id |-> id, sender_id |-> receiver, receiver_id |-> sender,
     content |-> content, is_read |-> 0, created_at |-> now]

\* Message(sender_id=..., receiver_id=..., content=...) with the column
\* defaults is_read=0 and created_at=datetime.utcnow
Message(id, sender, receiver, content, now) ==
    [id |-> id, sender_id |-> sender, receiver_id |-> receiver,
     content |-> content, is_read |-> 0, created_at |-> now]

\* mutant: the receiver is not looked up
ReceiverExists_Unchecked(receiverId) == TRUE

\* db.query(User).filter(User.id == message_data.receiverId).first()
ReceiverExists(receiverId) == receiverId \in users

\* mutant: the id in the token is believed without looking the user up
get_current_user_Unverified(token) == token

\* auth.get_current_user: the user the token names, if that user exists
get_current_user(token) ==
    IF token # Falsy /\ token \in users THEN token ELSE Unauthorized

NoResponse == [op |-> "none", status |-> 0]
NoEmits == << >>

NoCall == [op |-> "none", who |-> 0, arg |-> 0]
Call(op, who, arg) == [op |-> op, who |-> who, arg |-> arg]

\* mutant: the push is waited for inside the step, so that no handler runs
\* while a send is in its sio.emit
Idle_NoPushPending == last = NoCall /\ sendTasks = {}

\* no handler step is being reported
Idle == last = NoCall

InFlight == Cardinality(sendTasks) + Cardinality(markTasks)

\* ---------------------------------------------------- the presence dict
\* `user_id in connected_users`
Online(d, user_id) == \E p \in d : p[1] = user_id

\* mutant: the handle of whichever entry comes first, not of user_id
Lookup_AnyEntry(d, user_id) == (CHOOSE p \in d : TRUE)[2]

\* `connected_users[user_id]`
Lookup(d, user_id) == (CHOOSE p \in d : p[1] = user_id)[2]

\* mutant: setdefault, an earlier entry of the user is kept
DictSet_FirstWins(d, user_id, sid) ==
    IF \E p \in d : p[1] = user_id THEN d ELSE d \cup {<<user_id, sid>>}

\* `connected_users[user_id] = sid`
DictSet(d, user_id, sid) == {p \in d : p[1] # user_id} \cup {<<user_id, sid>>}

\* mutant: a disconnect of a handle in use empties the whole dict
DictDropSid_Clear(d, sid) == IF \E p \in d : p[2] = sid THEN {} ELSE d

\* the loop of disconnect: `del connected_users[user_id]` where socket_id == sid
DictDropSid(d, sid) == {p \in d : p[2] # sid}

Emit(event, to, senderId, content, timestamp, via) ==
    [event |-> event, to |-> to, senderId |-> senderId, content |-> content,
     timestamp |-> timestamp, via |-> via]

\* ---------------------------------------------------------------- Init
Init ==
    /\ messages = {}
    /\ connected_users = {}
    /\ clock = 1
    /\ sendTasks = {}
    /\ markTasks = {}
    /\ response = NoResponse
    /\ emits = NoEmits
    /\ last = NoCall

\* ------------------------------------------------- Socket.IO handlers
\* mutant: a connection is entered in the dict as user 1 before it
\* authenticates
Connect_Registers(sid) ==
    /\ Idle
    /\ last' = Call("connect", 0, 0)
    /\ connected_users' = DictSet(connected_users, 1, sid)
    /\ response' = NoResponse
    /\ emits' = NoEmits
    /\ UNCHANGED <<messages, clock, sendTasks, markTasks>>

\* connect(sid, environ): only prints
Connect(sid) ==
    /\ Idle
    /\ last' = Call("connect", 0, 0)
    /\ response' = NoResponse
    /\ emits' = NoEmits
    /\ UNCHANGED <<messages, connected_users, clock, sendTasks, markTasks>>

\* disconnect(sid)
Disconnect(sid) ==
    /\ Idle
    /\ last' = Call("disconnect", sid, 0)
    /\ connected_users' = DictDropSid(connected_users, sid)
    /\ response' = NoResponse
    /\ emits' = NoEmits
    /\ UNCHANGED <<messages, clock, sendTasks, markTasks>>

\* authenticate(sid, data) with data.get('userId') = userId
Authenticate(sid, userId) ==
    /\ Idle
    /\ last' = Call("authenticate", sid, userId)
    /\ IF userId # Falsy
       THEN /\ connected_users' = DictSet(connected_users, userId, sid)
            /\ emits' = <<Emit("authenticated", sid, userId, "", 0, "socket")>>
       ELSE /\ connected_users' = connected_users
            /\ emits' = NoEmits
    /\ response' = NoResponse
    /\ UNCHANGED <<messages, clock, sendTasks, markTasks>>

\* mutant: the message_sent confirmation is sent only after a push
SocketSendMessage_AckAfterPush(sid, senderId, receiverId, content) ==
    /\ Idle
    /\ last' = Call("send_message", sid, 0)
    /\ emits' =
         (IF Online(connected_users, receiverId)
          THEN <<Emit("receive_message", Lookup(connected_users, receiverId),
                      senderId, content, clock, "socket"),
                 Emit("message_sent", sid, 0, "", 0, "socket")>>
          ELSE << >>)
    /\ response' = NoResponse
    /\ UNCHANGED <<messages, connected_users, clock, sendTasks, markTasks>>

\* send_message(sid, data): the live-only event
SocketSendMessage(sid, senderId, receiverId, content) ==
    /\ Idle
    /\ last' = Call("send_message", sid, 0)
    /\ emits' =
         (IF Online(connected_users, receiverId)
          THEN <<Emit("receive_message", Lookup(connected_users, receiverId),
                      senderId, content, clock, "socket")>>
          ELSE << >>)
         \o <<Emit("message_sent", sid, 0, "", 0, "socket")>>
    /\ response' = NoResponse
    /\ UNCHANGED <<messages, connected_users, clock, sendTasks, markTasks>>

\* ------------------------------------------------------- the environment
\* the server process is restarted: the module is loaded again
\* (connected_users = {}), every connection and every request in flight is gone
Restart ==
    /\ Idle
    /\ last' = Call("restart", 0, 0)
    /\ connected_users' = {}
    /\ sendTasks' = {}
    /\ markTasks' = {}
    /\ response' = NoResponse
    /\ emits' = NoEmits
    /\ UNCHANGED <<messages, clock>>

\* ------------------------------------------------------ REST endpoints
Reply(op, status, body) == [op |-> op, status |-> status, body |-> body]

\* the dict send_message_api and get_messages build from a row
MessageDict(m) ==
    [id |-> m.id, senderId |-> m.sender_id, receiverId |-> m.receiver_id,
     content |-> m.content, createdAt |-> m.created_at, isRead |-> m.is_read]

\* mutant: any string is accepted as content
MessageCreateValid_Any(content) == TRUE

\* the validation of the request body by schemas.MessageCreate, a class
\* main.py imports: content must be non-empty (specification 4.1, append:
\* "content must be non-empty (fails with InvalidArgument otherwise)")
MessageCreateValid(content) == content # ""

\* POST /api/messages with a bearer token and {receiverId, content}: the
\* handler up to its `await sio.emit`, or up to its return when the receiver
\* is not in connected_users
send_message_api(token, receiverId, content, now) ==
    LET current_user == get_current_user(token)
        new_message == Message(NewId, current_user, receiverId, content, now)
    IN
    /\ Idle
    /\ last' = Call("send_message_api", current_user, receiverId)
    /\ UNCHANGED <<connected_users, markTasks>>
    /\ IF current_user = Unauthorized
       THEN /\ response' = Reply("send", 401, "Could not validate credentials")
            /\ emits' = NoEmits
            /\ UNCHANGED <<messages, sendTasks, clock>>
       ELSE IF ~MessageCreateValid(content)
       THEN /\ response' = Reply("send", 422, "Unprocessable Entity")
            /\ emits' = NoEmits
            /\ UNCHANGED <<messages, sendTasks, clock>>
       ELSE IF ~ReceiverExists(receiverId)
       THEN /\ response' = Reply("send", 404, "Receiver not found")
            /\ emits' = NoEmits
            /\ UNCHANGED <<messages, sendTasks, clock>>
       ELSE \/ \* db.commit() raises: nothing is written
               /\ response' = Reply("send", 500, "Internal Server Error")
               /\ emits' = NoEmits
               /\ UNCHANGED <<messages, sendTasks, clock>>
            \/ /\ Cardinality(messages) < MaxMessages
               /\ messages' = messages \cup {new_message}
               /\ clock' = now
               /\ IF Online(connected_users, receiverId)
                  THEN /\ emits' = <<Emit("receive_message",
                                          Lookup(connected_users, receiverId),
                                          current_user, content,
                                          new_message.created_at, "api")>>
                       /\ sendTasks' = sendTasks \cup
                            {[msg |-> new_message]}
                       /\ response' = NoResponse
                  ELSE /\ emits' = NoEmits
                       /\ response' = Reply("send", 200, MessageDict(new_message))
                       /\ UNCHANGED sendTasks

\* the awaited sio.emit of a suspended send_message_api returns: the handler
\* returns the message
SendEmitReturns(task) ==
    /\ Idle
    /\ last' = Call("send_emit_returns", task.msg.sender_id, task.msg.receiver_id)
    /\ task \in sendTasks
    /\ sendTasks' = sendTasks \ {task}
    /\ response' = Reply("send", 200, MessageDict(task.msg))
    /\ emits' = NoEmits
    /\ UNCHANGED <<messages, connected_users, clock, markTasks>>

\* the awaited sio.emit raises: nothing catches it, the request fails
SendEmitRaises(task) ==
    /\ Idle
    /\ last' = Call("send_emit_raises", task.msg.sender_id, task.msg.receiver_id)
    /\ task \in sendTasks
    /\ sendTasks' = sendTasks \ {task}
    /\ response' = Reply("send", 500, "Internal Server Error")
    /\ emits' = NoEmits
    /\ UNCHANGED <<messages, connected_users, clock, markTasks>>

\* mutant: only the rows the requester sent
ConversationRows_Outbound(rows, me, user_id) ==
    {m \in rows : m.sender_id = me /\ m.receiver_id = user_id}

\* the filter of get_messages: rows between me and user_id, either direction
ConversationRows(rows, me, user_id) ==
    {m \in rows : \/ (m.sender_id = me /\ m.receiver_id = user_id)
                  \/ (m.sender_id = user_id /\ m.receiver_id = me)}

\* .order_by(Message.created_at).all(): the orders the store may return
OrderByCreatedAt(rows) ==
    {q \in [1..Cardinality(rows) -> rows] :
        /\ \A i, j \in 1..Cardinality(rows) : i # j => q[i] # q[j]
        /\ \A i, j \in 1..Cardinality(rows) : i < j => q[i].created_at <= q[j].created_at}

\* mutant: fetching a conversation marks what the caller received in it as
\* read
get_messages_MarkingRead(token, user_id) ==
    LET current_user == get_current_user(token) IN
    /\ Idle
    /\ last' = Call("get_messages", current_user, 0)
    /\ IF current_user = Unauthorized
       THEN /\ response' = Reply("get_messages", 401, "Could not validate credentials")
            /\ messages' = messages
       ELSE /\ \E q \in OrderByCreatedAt(ConversationRows(messages, current_user, user_id)) :
                response' = Reply("get_messages", 200,
                                  [i \in DOMAIN q |-> MessageDict(q[i])])
            /\ messages' = {IF m.sender_id = user_id /\ m.receiver_id = current_user
                             THEN [m EXCEPT !.is_read = 1] ELSE m : m \in messages}
    /\ emits' = NoEmits
    /\ UNCHANGED <<connected_users, clock, sendTasks, markTasks>>

\* GET /api/messages/{user_id}
get_messages(token, user_id) ==
    LET current_user == get_current_user(token) IN
    /\ Idle
    /\ last' = Call("get_messages", current_user, 0)
    /\ IF current_user = Unauthorized
       THEN response' = Reply("get_messages", 401, "Could not validate credentials")
       ELSE \E q \in OrderByCreatedAt(ConversationRows(messages, current_user, user_id)) :
                response' = Reply("get_messages", 200,
                                  [i \in DOMAIN q |-> MessageDict(q[i])])
    /\ emits' = NoEmits
    /\ UNCHANGED <<messages, connected_users, clock, sendTasks, markTasks>>

\* mutant: the unread rows between the two users, whoever sent them
UnreadFrom_EitherDirection(rows, user_id, me) ==
    {m \in rows : /\ m.is_read = 0
                  /\ \/ (m.sender_id = user_id /\ m.receiver_id = me)
                     \/ (m.sender_id = me /\ m.receiver_id = user_id)}

\* mutant: the is_read == 0 condition is missing
UnreadFrom_AnyFlag(rows, user_id, me) ==
    {m \in rows : m.sender_id = user_id /\ m.receiver_id = me}

\* the query of mark_messages_read: unread rows from user_id to me
UnreadFrom(rows, user_id, me) ==
    {m \in rows : m.sender_id = user_id /\ m.receiver_id = me /\ m.is_read = 0}

\* PUT /api/messages/{user_id}/mark-read up to the end of its query
MarkReadQuery(token, user_id) ==
    LET current_user == get_current_user(token) IN
    /\ Idle
    /\ last' = Call("mark_read_query", current_user, user_id)
    /\ IF current_user = Unauthorized
       THEN /\ response' = Reply("mark_read", 401, "Could not validate credentials")
            /\ UNCHANGED markTasks
       ELSE /\ markTasks' = markTasks \cup
                 {[me |-> current_user, user_id |-> user_id,
                   ids |-> {m.id : m \in UnreadFrom(messages, user_id, current_user)}]}
            /\ response' = NoResponse
    /\ emits' = NoEmits
    /\ UNCHANGED <<messages, connected_users, clock, sendTasks>>

\* the filter of get_conversations: rows me sent or received
OwnRows(rows, me) == {m \in rows : m.sender_id = me \/ m.receiver_id = me}

\* .order_by(Message.created_at.desc()).all(): the orders the store may return
OrderByCreatedAtDesc(rows) ==
    {q \in [1..Cardinality(rows) -> rows] :
        /\ \A i, j \in 1..Cardinality(rows) : i # j => q[i] # q[j]
        /\ \A i, j \in 1..Cardinality(rows) : i < j => q[i].created_at >= q[j].created_at}

\* mutant: the lookup of the other user always finds a row
OtherUserFound_Always(other_user_id) == TRUE

\* db.query(User).filter(User.id == other_user_id).first()
OtherUserFound(other_user_id) == other_user_id \in users

\* other_user_id = msg.receiver_id if msg.sender_id == current_user.id
\*                 else msg.sender_id
OtherUserId(msg, me) == IF msg.sender_id = me THEN msg.receiver_id ELSE msg.sender_id

\* mutant: every unread row is counted, whoever it is addressed to
CountsAsUnread_AnyReceiver(msg, me) == msg.is_read = 0

\* msg.receiver_id == current_user.id and msg.is_read == 0
CountsAsUnread(msg, me) == msg.receiver_id = me /\ msg.is_read = 0

InConversations(conversations, other_user_id) ==
    \E k \in DOMAIN conversations : conversations[k].id = other_user_id

\* one round of the loop of get_conversations. The dict is modelled by the
\* sequence of its values in insertion order; of the user row an entry keeps
\* the id (fullName, username and profileImage are columns of that row).
ConversationsStep(conversations, msg, me) ==
    LET other_user_id == OtherUserId(msg, me)
        known == InConversations(conversations, other_user_id)
        withEntry ==
            IF known THEN conversations
            ELSE Append(conversations,
                        [id |-> other_user_id, lastMessage |-> msg.content,
                         lastMessageTime |-> msg.created_at, unreadCount |-> 0])
    IN IF ~known /\ ~OtherUserFound(other_user_id)
       THEN conversations        \* continue
       ELSE IF CountsAsUnread(msg, me)
            THEN [k \in DOMAIN withEntry |->
                    IF withEntry[k].id = other_user_id
                    THEN [withEntry[k] EXCEPT !.unreadCount = @ + 1]
                    ELSE withEntry[k]]
            ELSE withEntry

\* the dict after the first n rows of q
RECURSIVE ConversationsAfter(_, _, _)
ConversationsAfter(q, n, me) ==
    IF n = 0 THEN << >>
    ELSE ConversationsStep(ConversationsAfter(q, n - 1, me), q[n], me)

\* GET /api/conversations
get_conversations(token) ==
    LET current_user == get_current_user(token) IN
    /\ Idle
    /\ last' = Call("get_conversations", current_user, 0)
    /\ IF current_user = Unauthorized
       THEN response' = Reply("get_conversations", 401, "Could not validate credentials")
       ELSE \E q \in OrderByCreatedAtDesc(OwnRows(messages, current_user)) :
                response' = Reply("get_conversations", 200,
                                  ConversationsAfter(q, Len(q), current_user))
    /\ emits' = NoEmits
    /\ UNCHANGED <<messages, connected_users, clock, sendTasks, markTasks>>

\* mutant: each row is committed on its own, and the step is over after the
\* first of them
SetRead_OneRow(rows, ids) ==
    {IF m.id \in ids /\ \A n \in rows : n.id \in ids => m.id <= n.id
     THEN [m EXCEPT !.is_read = 1] ELSE m : m \in rows}

\* mutant: only the rows queried are written back, the others are lost
SetRead_OnlyMarked(rows, ids) ==
    {[m EXCEPT !.is_read = 1] : m \in {r \in rows : r.id \in ids}}

\* mutant: the rows outside the query are written back as unread
SetRead_ResetOthers(rows, ids) ==
    {[m EXCEPT !.is_read = IF m.id \in ids THEN 1 ELSE 0] : m \in rows}

\* the loop `msg.is_read = 1` over the rows queried
SetRead(rows, ids) ==
    {IF m.id \in ids THEN [m EXCEPT !.is_read = 1] ELSE m : m \in rows}

\* mark_messages_read from its loop to its return: one commit, and the
\* count len(messages) in the reply
MarkReadCommit(task) ==
    /\ Idle
    /\ last' = Call("mark_read_commit", task.me, task.user_id)
    /\ task \in markTasks
    /\ markTasks' = markTasks \ {task}
    /\ messages' = SetRead(messages, task.ids)
    /\ response' = Reply("mark_read", 200,
                         [status |-> "success", count |-> Cardinality(task.ids)])
    /\ emits' = NoEmits
    /\ UNCHANGED <<connected_users, clock, sendTasks>>

\* db.commit() of mark_messages_read raises: the request fails and the
\* session is closed without a commit, so no row is written
MarkReadCommitFails(task) ==
    /\ Idle
    /\ last' = Call("mark_read_fails", task.me, task.user_id)
    /\ task \in markTasks
    /\ markTasks' = markTasks \ {task}
    /\ response' = Reply("mark_read", 500, "Internal Server Error")
    /\ emits' = NoEmits
    /\ UNCHANGED <<messages, connected_users, clock, sendTasks>>

\* the handler step is over: the ASGI server has sent the response, the
\* Socket.IO server the events
Deliver ==
    /\ ~Idle
    /\ last' = NoCall
    /\ response' = NoResponse
    /\ emits' = NoEmits
    /\ UNCHANGED <<messages, connected_users, clock, sendTasks, markTasks>>

\* ---------------------------------------------------------------- Next
Next ==
    \/ \E sid \in Sids : Connect(sid)
    \/ \E sid \in Sids : Disconnect(sid)
    \/ \E sid \in Sids, userId \in users \cup {Falsy} : Authenticate(sid, userId)
    \/ \E sid \in Sids, senderId \in users, receiverId \in users, content \in Contents :
           SocketSendMessage(sid, senderId, receiverId, content)
    \/ \E token \in Tokens, receiverId \in UserIds, content \in Bodies,
          now \in clock..MaxClock :
           /\ send_message_api(token, receiverId, content, now)
           /\ InFlight' <= MaxTasks
    \/ \E task \in sendTasks : SendEmitReturns(task)
    \/ \E task \in sendTasks : SendEmitRaises(task)
    \/ \E token \in Tokens, user_id \in UserIds : get_messages(token, user_id)
    \/ \E token \in Tokens : get_conversations(token)
    \/ \E token \in Tokens, user_id \in users :
           /\ MarkReadQuery(token, user_id)
           /\ InFlight' <= MaxTasks
    \/ \E task \in markTasks : MarkReadCommit(task)
    \/ \E task \in markTasks : MarkReadCommitFails(task)
    \/ Restart
    \/ Deliver

Spec == Init /\ [][Next]_vars

\* ------------------------------------------------- the maintenance script
\* optimize_db.py, run on unimarket.db beside the server:
\* DELETE FROM messages, committed (the indexes it then creates change no row)
optimize_database ==
    /\ Idle
    /\ last' = Call("optimize_database", 0, 0)
    /\ messages' = {}
    /\ response' = NoResponse
    /\ emits' = NoEmits
    /\ UNCHANGED <<connected_users, clock, sendTasks, markTasks>>

NextMaint ==
    \/ Next
    \/ optimize_database

\* the server and the maintenance script
SpecMaint == Init /\ [][NextMaint]_vars

\* ------------------------------------------------- concurrent sends
\* send_message_api calls that overlap: up to MaxConcurrent of them are
\* suspended in their sio.emit while others run, their receivers come and
\* go, and conversations are fetched
NextConcurrent ==
    \/ \E sid \in Sids, userId \in users : Authenticate(sid, userId)
    \/ \E sid \in Sids : Disconnect(sid)
    \/ \E token \in users, receiverId \in users, content \in Contents,
          now \in clock..MaxClock :
           /\ send_message_api(token, receiverId, content, now)
           /\ InFlight' <= MaxConcurrent
    \/ \E task \in sendTasks : SendEmitReturns(task)
    \/ \E task \in sendTasks : SendEmitRaises(task)
    \/ \E token \in users, user_id \in users : get_messages(token, user_id)
    \/ Deliver

SpecConcurrent == Init /\ [][NextConcurrent]_vars

\* --------------------------------------------- concurrent mark-reads
\* mark_messages_read calls that overlap: the endpoint is a plain def, run
\* in the thread pool, so up to MaxConcurrent calls are between their query
\* and their commit while messages arrive and are fetched
NextMarks ==
    \/ \E token \in users, receiverId \in users, now \in clock..MaxClock :
           send_message_api(token, receiverId, "a", now)
    \/ \E token \in users, user_id \in users :
           /\ MarkReadQuery(token, user_id)
           /\ InFlight' <= MaxConcurrent
    \/ \E task \in markTasks : MarkReadCommit(task)
    \/ \E task \in markTasks : MarkReadCommitFails(task)
    \/ \E token \in users, user_id \in users : get_messages(token, user_id)
    \/ \E token \in users : get_conversations(token)
    \/ Deliver

SpecMarks == Init /\ [][NextMarks]_vars

\* ------------------------------------------- the summaries of any table
\* the columns of a row besides its id. A sender_id or receiver_id outside
\* users is the id of a user whose row is no longer in the users table.
RowData ==
    [sender_id : UserIds, receiver_id : UserIds, content : Contents,
     is_read : {0, 1}, created_at : 1..MaxClock]

\* a table of up to MaxStored rows with the ids 1..n, created_at not
\* decreasing with the id; no request in flight, nobody online
InitAggregate ==
    /\ \E n \in 0..MaxStored : \E f \in [1..n -> RowData] :
          /\ \A i, j \in 1..n : i < j => f[i].created_at <= f[j].created_at
          /\ messages = {[id |-> i, sender_id |-> f[i].sender_id,
                           receiver_id |-> f[i].receiver_id, content |-> f[i].content,
                           is_read |-> f[i].is_read, created_at |-> f[i].created_at] :
                             i \in 1..n}
    /\ connected_users = {}
    /\ clock = MaxClock
    /\ sendTasks = {}
    /\ markTasks = {}
    /\ response = NoResponse
    /\ emits = NoEmits
    /\ last = NoCall

NextAggregate ==
    \/ \E token \in Tokens : get_conversations(token)
    \/ Deliver

\* GET /api/conversations on any table
SpecAggregate == InitAggregate /\ [][NextAggregate]_vars

\* ====================================================== the properties
\* what findConversation(a, b) may return: get_messages as requested by a
findConversation(rows, a, b) ==
    {[i \in DOMAIN q |-> MessageDict(q[i])] :
        q \in OrderByCreatedAt(ConversationRows(rows, a, b))}

\* m is in every result findConversation(a, b) may return
InConversation(m, rows, a, b) ==
    \A q \in findConversation(rows, a, b) :
        \E i \in DOMAIN q : q[i] = MessageDict(m)

\* the step is a send_message_api call that stored its message
SendAccepted ==
    /\ last'.op = "send_message_api"
    /\ \/ response'.status = 200
       \/ sendTasks' # sendTasks

\* C1: a send by an authenticated sender to an existing receiver that is
\* accepted adds exactly one message: findConversation(sender, receiver)
\* keeps every message it had and gains exactly one, with that sender,
\* receiver and content and with the read flag false.
C1_SendAddsOneMessage ==
    [][SendAccepted =>
        \A token \in Tokens, receiverId \in UserIds, content \in Contents,
           now \in 1..MaxClock :
            send_message_api(token, receiverId, content, now) =>
                LET sender == get_current_user(token)
                    before == ConversationRows(messages, sender, receiverId)
                    after == ConversationRows(messages', sender, receiverId)
                IN /\ sender \in users /\ receiverId \in users
                   /\ before \subseteq after
                   /\ Cardinality(after \ before) = 1
                   /\ Cardinality(messages') = Cardinality(messages) + 1
                   /\ \A m \in after \ before :
                        /\ m.sender_id = sender
                        /\ m.receiver_id = receiverId
                        /\ m.content = content
                        /\ m.is_read = 0
                        /\ InConversation(m, messages', sender, receiverId)
                   /\ \A m \in before : InConversation(m, messages', sender, receiverId)
    ]_vars

\* a send returned 200 with the second message of a conversation
C1_Witness ==
    /\ last.op = "send_message_api"
    /\ response.status = 200
    /\ \E m, n \in messages :
        /\ response.body = MessageDict(n)
        /\ m # n
        /\ m \in ConversationRows(messages, n.sender_id, n.receiver_id)

\* the step is a send_message_api call whose body passed validation
SendOfValidBody ==
    \E token \in Tokens, receiverId \in UserIds, content \in Contents,
       now \in 1..MaxClock :
        /\ MessageCreateValid(content)
        /\ send_message_api(token, receiverId, content, now)

C3_PushFailureSwallowed ==
    [][last'.op = "send_emit_raises" =>
        /\ response'.op = "send"
        /\ response'.status = 200
        /\ \E m \in messages' : response'.body = MessageDict(m)
    ]_vars

\* C4: whenever a send reports failure to its caller, no message of that
\* call is in the store afterwards.
C4_FailedSendStoresNothing ==
    [][(response'.op = "send" /\ response'.status # 200) =>
        /\ messages' = messages
        /\ \A task \in sendTasks \ sendTasks' :
              \A m \in messages' : m.id # task.msg.id
    ]_vars

\* C5: a message accepted by send is returned by
\* findConversation(receiver, sender) in every later state, whatever the
\* presence of the receiver was when it was sent and whatever connect,
\* authenticate, disconnect or restart follows.
C5_StoredMessageStaysFetchable ==
    [][/\ \A m \in messages' :
            InConversation(m, messages', m.receiver_id, m.sender_id)
       /\ \A m \in messages : \E n \in messages' :
            /\ n.id = m.id
            /\ n.sender_id = m.sender_id
            /\ n.receiver_id = m.receiver_id
            /\ n.content = m.content
       /\ SendAccepted => \E n \in messages' \ messages :
            /\ n.sender_id = last'.who
            /\ n.receiver_id = last'.arg
    ]_vars

\* the receiver fetches an unread message while absent from the presence
\* dict, after a restart or without ever having connected
C5_Witness ==
    /\ last.op = "get_messages"
    /\ response.status = 200
    /\ connected_users = {}
    /\ \E i \in DOMAIN response.body :
        /\ \E m \in messages : response.body[i] = MessageDict(m)
        /\ response.body[i].receiverId = last.who
        /\ response.body[i].senderId # last.who
        /\ response.body[i].isRead = 0

\* a message with the sender, the content and the receiver of the push e
MessageStoredFor(e) ==
    \E m \in messages :
        /\ m.sender_id = e.senderId
        /\ m.content = e.content
        /\ <<m.receiver_id, e.to>> \in connected_users

\* C6 as stated: whenever a receive_message is pushed to a receiver's handle,
\* a message with that sender, receiver and content is already stored.
C6_EveryPushIsStored ==
    \A i \in DOMAIN emits :
        emits[i].event = "receive_message" => MessageStoredFor(emits[i])

\* C6 as amended: whenever send_message_api (POST /api/messages) pushes a
\* receive_message to a receiver's handle, a message with that sender,
\* receiver and content is already stored.
C6_ApiPushIsStored ==
    \A i \in DOMAIN emits :
        (emits[i].event = "receive_message" /\ emits[i].via = "api")
            => MessageStoredFor(emits[i])

\* send_message_api has just pushed to an online receiver
C6_Witness ==
    /\ last.op = "send_message_api"
    /\ \E i \in DOMAIN emits :
        emits[i].event = "receive_message" /\ emits[i].via = "api"

\* C7: disconnect(h) removes exactly the entries whose handle is h: a user
\* mapped to h is absent afterwards, a user mapped to another handle keeps
\* it, and no entry appears.
C7_DisconnectRemovesOnlyItsHandle ==
    [][last'.op = "disconnect" =>
        \A u \in UserIds :
            IF Online(connected_users, u)
            THEN IF Lookup(connected_users, u) = last'.who
                 THEN ~Online(connected_users', u)
                 ELSE /\ Online(connected_users', u)
                      /\ Lookup(connected_users', u) = Lookup(connected_users, u)
            ELSE ~Online(connected_users', u)
    ]_vars

\* a disconnect has run and a user mapped to another handle is still online
C7_Witness ==
    /\ last.op = "disconnect"
    /\ \E u \in UserIds :
        Online(connected_users, u) /\ Lookup(connected_users, u) # last.who

\* no user has two entries
AtMostOneHandle(d) == \A p, q \in d : p[1] = q[1] => p = q

\* C8: each user identity maps to at most one handle, and right after
\* authenticate(h, u) with a user identity u, lookup(u) is h, whatever u was
\* mapped to before, and the handler acknowledges.
C8_LastAuthenticationWins ==
    [][/\ AtMostOneHandle(connected_users')
       /\ (last'.op = "authenticate" /\ last'.arg # Falsy) =>
            /\ Online(connected_users', last'.arg)
            /\ \A p \in connected_users' : p[1] = last'.arg => p[2] = last'.who
            /\ \A p \in connected_users' : p[1] # last'.arg => p \in connected_users
            /\ emits' = <<Emit("authenticated", last'.who, last'.arg, "", 0, "socket")>>
    ]_vars

\* an authenticate has run for a user while another user is online too
C8_Witness ==
    /\ last.op = "authenticate"
    /\ last.arg # Falsy
    /\ <<last.arg, last.who>> \in connected_users
    /\ Cardinality(connected_users) = NumUsers

\* the messages from a to b that are unread
UnreadIds(rows, a, b) ==
    {m.id : m \in {r \in rows : r.sender_id = a /\ r.receiver_id = b /\ r.is_read = 0}}

\* C9: a markRead(sender=A, receiver=B) call works on the A-to-B messages
\* that were unread when it was called, returns their number and leaves none
\* of them unread; called when none is unread (as right after another
\* markRead) it returns 0 and changes nothing.
C9_MarkReadIdempotent ==
    [][/\ \A t \in markTasks' \ markTasks :
            t.ids = UnreadIds(messages, t.user_id, t.me)
       /\ last'.op = "mark_read_commit" =>
            \A t \in markTasks \ markTasks' :
                /\ response'.status = 200
                /\ response'.body.count = Cardinality(t.ids)
                /\ \A m \in messages' : m.id \in t.ids => m.is_read = 1
                /\ t.ids = {} => (response'.body.count = 0 /\ messages' = messages)
    ]_vars

\* a markRead returned 0 for a pair whose messages an earlier markRead had
\* switched to read
C9_Witness ==
    /\ last.op = "mark_read_commit"
    /\ response.body.count = 0
    /\ \E m \in messages :
        /\ m.sender_id = last.arg
        /\ m.receiver_id = last.who
        /\ m.is_read = 1

\* C10: a stored message's identifier, sender, receiver, content and
\* timestamp never change; its read flag, once 1, stays 1; and only
\* mark_messages_read changes a read flag.
C10_MessagesImmutableReadMonotone ==
    [][/\ \A m, n \in messages' : m.id = n.id => m = n
       /\ \A m \in messages : \E n \in messages' :
            /\ n.id = m.id
            /\ n.sender_id = m.sender_id
            /\ n.receiver_id = m.receiver_id
            /\ n.content = m.content
            /\ n.created_at = m.created_at
            /\ m.is_read = 1 => n.is_read = 1
            /\ n.is_read # m.is_read => last'.op = "mark_read_commit"
    ]_vars

\* a markRead has switched a message to read
C10_Witness ==
    /\ last.op = "mark_read_commit"
    /\ response.body.count > 0
    /\ \E m \in messages : m.is_read = 1 /\ m.sender_id = last.arg


\* the identifiers stored before the step are stored after it
IdsKept == \A m \in messages : \E n \in messages' : n.id = m.id

\* C11 as stated: under any operation the repository provides, the set of
\* identifiers of stored messages never shrinks: a message that was stored is
\* never deleted.
C11_NeverDeleted == [][IdsKept]_vars

\* C11 as amended: under any operation of the running server (the REST
\* endpoints, the Socket.IO handlers, a restart) the set of identifiers of
\* stored messages never shrinks; only optimize_db.py deletes messages.
C11_ServerNeverDeletes ==
    [][last'.op # "optimize_database" => IdsKept]_vars

\* a server step that writes the table has run on a store of two rows: a
\* mark-read commit has marked one of them, and both are still there
C11_Witness ==
    /\ last.op = "mark_read_commit"
    /\ Cardinality(messages) = 2
    /\ \E m, n \in messages : m.is_read = 1 /\ n.is_read = 0


\* the step is the commit of markConversationRead(last'.who, last'.arg)
MarkReadStep == last'.op = "mark_read_commit"

\* C12 as stated: markConversationRead(requester, counterpart) changes only
\* messages with sender = counterpart and receiver = requester: every message
\* sent by the requester and every message of any other pair is unchanged, so
\* a user cannot mark their own outbound messages as read.
C12_MarkReadOnlyInbound ==
    [][MarkReadStep =>
        \A m \in messages :
            (\/ m.sender_id = last'.who
             \/ ~(m.sender_id = last'.arg /\ m.receiver_id = last'.who))
                => m \in messages'
    ]_vars

\* C12 as amended: markConversationRead(requester, counterpart) changes only
\* messages with sender = counterpart and receiver = requester: every message
\* the requester sent to another user and every message of any other pair is
\* unchanged. A message the requester sent to themselves is marked by
\* markConversationRead(requester, requester).
C12_MarkReadOnlyAddressedToRequester ==
    [][MarkReadStep =>
        /\ \A m \in messages :
              ~(m.sender_id = last'.arg /\ m.receiver_id = last'.who)
                  => m \in messages'
        /\ \A m \in messages :
              (m.sender_id = last'.who /\ m.receiver_id # last'.who)
                  => m \in messages'
    ]_vars

\* a commit has marked the counterpart's message while the requester's own
\* unread message to that counterpart stays unread
C12_Witness ==
    /\ last.op = "mark_read_commit"
    /\ last.who # last.arg
    /\ response.body.count = 1
    /\ \E m, n \in messages :
        /\ m.sender_id = last.arg /\ m.receiver_id = last.who /\ m.is_read = 1
        /\ n.sender_id = last.who /\ n.receiver_id = last.arg /\ n.is_read = 0


\* the users me has exchanged a message with, in either direction
Counterparts(rows, me) ==
    {c \in UserIds : \E m \in rows : \/ (m.sender_id = me /\ m.receiver_id = c)
                                    \/ (m.sender_id = c /\ m.receiver_id = me)}

\* the step's reply is a summary list returned to its caller
SummaryReturned == last.op = "get_conversations" /\ last.who # Unauthorized

\* C13: summarize(requester) returns exactly one entry for each distinct
\* counterpart that appears in a message of the requester and whose user row
\* exists, no entry for any other user and no duplicates; a counterpart
\* without a user row is omitted and the call still succeeds; a requester
\* with no messages gets the empty list.
C13_OneEntryPerCounterpart ==
    SummaryReturned =>
        LET me == last.who
            body == response.body
        IN /\ response.status = 200
           /\ {body[k].id : k \in DOMAIN body} = Counterparts(messages, me) \cap users
           /\ \A j, k \in DOMAIN body : body[j].id = body[k].id => j = k
           /\ (\A m \in messages : m.sender_id # me /\ m.receiver_id # me)
                 => body = << >>

\* a summary of one entry for a requester with two messages of one
\* counterpart and a message of a user whose row is gone
C13_Witness ==
    /\ SummaryReturned
    /\ Len(response.body) = 1
    /\ \E m, n, o \in messages :
        /\ m # n
        /\ {m.sender_id, m.receiver_id} = {last.who, response.body[1].id}
        /\ {n.sender_id, n.receiver_id} = {last.who, response.body[1].id}
        /\ last.who # response.body[1].id
        /\ o.sender_id \notin users
        /\ o.receiver_id = last.who


\* m is later than n: greater timestamp, or the same timestamp and greater id
Later(m, n) ==
    \/ m.created_at > n.created_at
    \/ m.created_at = n.created_at /\ m.id > n.id

\* the latest message between a and b
Latest(rows, a, b) ==
    CHOOSE m \in ConversationRows(rows, a, b) :
        \A n \in ConversationRows(rows, a, b) : n # m => Later(m, n)

\* C14: for every entry returned by summarize(requester), lastMessage and
\* lastMessageTime are the content and the timestamp of the latest message
\* between the requester and that counterpart in either direction: the one
\* with the greatest timestamp and, among equal timestamps, the greatest
\* identifier.
C14_LastMessageIsLatest ==
    SummaryReturned =>
        \A k \in DOMAIN response.body :
            LET e == response.body[k]
                latest == Latest(messages, last.who, e.id)
            IN /\ e.lastMessage = latest.content
               /\ e.lastMessageTime = latest.created_at

\* the unreadCount summarize(me) shows for c on the table rows, 0 when c is
\* not listed
UnreadCountOf(rows, me, c) ==
    LET q == CHOOSE o \in OrderByCreatedAtDesc(OwnRows(rows, me)) : TRUE
        body == ConversationsAfter(q, Len(q), me)
    IN IF \E k \in DOMAIN body : body[k].id = c
       THEN (CHOOSE e \in {body[k] : k \in DOMAIN body} : e.id = c).unreadCount
       ELSE 0

\* every unreadCount of the reply is the number of unread stored messages
\* from that counterpart to the requester
UnreadCountsExact ==
    \A k \in DOMAIN response.body :
        response.body[k].unreadCount =
            Cardinality({m \in messages : /\ m.sender_id = response.body[k].id
                                          /\ m.receiver_id = last.who
                                          /\ m.is_read = 0})

\* without the message m, summarize(me) shows the same unreadCount for every
\* counterpart
NoContribution(m, me) ==
    \A c \in UserIds :
        UnreadCountOf(messages \ {m}, me, c) = UnreadCountOf(messages, me, c)

\* C15 as stated: for every entry returned by summarize(requester),
\* unreadCount is the number of stored messages with sender = that
\* counterpart, receiver = requester and read flag false; messages sent by
\* the requester never contribute to any unreadCount.
C15_UnreadCountInbound ==
    SummaryReturned =>
        /\ UnreadCountsExact
        /\ \A m \in messages : m.sender_id = last.who => NoContribution(m, last.who)

\* C15 as amended: for every entry returned by summarize(requester),
\* unreadCount is the number of stored messages with sender = that
\* counterpart, receiver = requester and read flag false; messages the
\* requester sent to another user never contribute to any unreadCount. An
\* unread message the requester sent to themselves counts in their own entry.
C15_UnreadCountAddressedToRequester ==
    SummaryReturned =>
        /\ UnreadCountsExact
        /\ \A m \in messages :
              (m.sender_id = last.who /\ m.receiver_id # last.who)
                  => NoContribution(m, last.who)

\* an entry shows unreadCount 1 for a counterpart with an unread and a read
\* message to the requester and an unread message from the requester
C15_Witness ==
    /\ SummaryReturned
    /\ \E k \in DOMAIN response.body :
        /\ response.body[k].unreadCount = 1
        /\ response.body[k].id # last.who
        /\ \E m, n, o \in messages :
            /\ m.sender_id = response.body[k].id /\ m.receiver_id = last.who
            /\ m.is_read = 0
            /\ n.sender_id = response.body[k].id /\ n.receiver_id = last.who
            /\ n.is_read = 1
            /\ o.sender_id = last.who /\ o.receiver_id = response.body[k].id
            /\ o.is_read = 0


\* what summarize(me) may return on the table rows, each as the set of its
\* entries
Summaries(rows, me) ==
    {LET body == ConversationsAfter(q, Len(q), me)
     IN {body[k] : k \in DOMAIN body} :
        q \in OrderByCreatedAtDesc(OwnRows(rows, me))}

\* C16: read receipts are reflected in summaries: if summarize(r) shows
\* unreadCount = k for counterpart c, then markConversationRead(r, c), run
\* on that store, returns k, and a summarize(r) after it shows unreadCount 0
\* for c, still lists c with the same lastMessage, and shows the same
\* unreadCount for every other counterpart.
C16_ReadReceiptsInSummaries ==
    [][MarkReadStep =>
        \A task \in markTasks \ markTasks' :
            (task.ids = {m.id : m \in UnreadFrom(messages, task.user_id, task.me)}) =>
                \A before \in Summaries(messages, task.me),
                   after \in Summaries(messages', task.me) :
                    \A e \in before :
                        IF e.id = task.user_id
                        THEN /\ response'.body.count = e.unreadCount
                             /\ \E f \in after :
                                   /\ f.id = e.id
                                   /\ f.unreadCount = 0
                                   /\ f.lastMessage = e.lastMessage
                        ELSE \E f \in after :
                                   /\ f.id = e.id
                                   /\ f.unreadCount = e.unreadCount
    ]_vars


\* the reply q holds exactly the messages between a and b, each once
ExactlyBetween(q, rows, a, b) ==
    /\ {q[i] : i \in DOMAIN q} =
          {MessageDict(m) : m \in {r \in rows :
                {r.sender_id, r.receiver_id} = {a, b}}}
    /\ \A i, j \in DOMAIN q : q[i] = q[j] => i = j

\* C17: findConversation is symmetric and exact: the result requested by a
\* about b and the result requested by b about a are the same sequence, and
\* it holds exactly the messages a sent to b or b sent to a, nothing of any
\* other pair and every message of this pair.
C17_ConversationSymmetricExact ==
    \A a, b \in users :
        \A p \in findConversation(messages, a, b),
           q \in findConversation(messages, b, a) :
            /\ p = q
            /\ ExactlyBetween(p, messages, a, b)

\* the reply is a conversation returned to its caller
ConversationReturned == last.op = "get_messages" /\ last.who # Unauthorized

\* C18: findConversation returns its messages in a stable total order:
\* ascending by timestamp and, among equal timestamps, ascending by
\* identifier, so that two calls on the same store return the same sequence.
C18_ConversationTotallyOrdered ==
    ConversationReturned =>
        \A i, j \in DOMAIN response.body :
            i < j =>
                \/ response.body[i].createdAt < response.body[j].createdAt
                \/ /\ response.body[i].createdAt = response.body[j].createdAt
                   /\ response.body[i].id < response.body[j].id


\* the stored row of a send in flight
StoredRowOf(task, rows) ==
    {m \in rows : /\ m.id = task.msg.id
                  /\ m.sender_id = task.msg.sender_id
                  /\ m.receiver_id = task.msg.receiver_id
                  /\ m.content = task.msg.content}

\* C19: under any interleaving of N concurrent send calls between the same
\* pair of users, the N messages are stored with N pairwise distinct
\* identifiers and all appear in findConversation for that pair; no send
\* overwrites or loses another's message, and each send completes on its
\* own, returning its own message while the others stay as they are.
C19_ConcurrentSendsAllStored ==
    [][/\ \A m, n \in messages' : m.id = n.id => m = n
       /\ \A task \in sendTasks' :
            \E m \in StoredRowOf(task, messages') :
                InConversation(m, messages', m.sender_id, m.receiver_id)
       /\ \A task, other \in sendTasks' :
            task.msg.id = other.msg.id => task = other
       /\ messages \subseteq messages'
       /\ SendAccepted => Cardinality(messages') = Cardinality(messages) + 1
       /\ last'.op \in {"send_emit_returns", "send_emit_raises"} =>
            /\ Cardinality(sendTasks') = Cardinality(sendTasks) - 1
            /\ sendTasks' \subseteq sendTasks
       /\ last'.op = "send_emit_returns" =>
            /\ response'.status = 200
            /\ \E task \in sendTasks \ sendTasks' :
                  /\ response'.body = MessageDict(task.msg)
                  /\ StoredRowOf(task, messages') # {}
    ]_vars

\* two sends of the same pair were suspended together; one has returned its
\* message while the other is still suspended, and both messages are stored
C19_Witness ==
    /\ last.op = "send_emit_returns"
    /\ response.status = 200
    /\ \E task \in sendTasks :
        /\ task.msg.sender_id = response.body.senderId
        /\ task.msg.receiver_id = response.body.receiverId
        /\ task.msg.id < response.body.id
    /\ Cardinality(messages) = 2


\* C20: a send whose content is empty fails with InvalidArgument (422) and
\* stores no message, pushes nothing and leaves nothing in flight, so every
\* stored message has non-empty content in every reachable state.
C20_EmptyContentRejected ==
    [][/\ last'.op = "send_message_api" =>
            \A token \in Tokens, receiverId \in UserIds, now \in 1..MaxClock :
                send_message_api(token, receiverId, "", now) =>
                    /\ response'.op = "send"
                    /\ response'.status = IF get_current_user(token) = Unauthorized
                                           THEN 401 ELSE 422
                    /\ messages' = messages
                    /\ emits' = NoEmits
                    /\ sendTasks' = sendTasks
       /\ \A m \in messages' : m.content # ""
    ]_vars

\* a send to an existing, online receiver was refused for its empty content
\* while messages are stored
C20_Witness ==
    /\ last.op = "send_message_api"
    /\ response.status = 422
    /\ last.arg \in users
    /\ Online(connected_users, last.arg)
    /\ messages # {}


\* C21: timestamps are monotonic with identifiers: for any two stored
\* messages, the one with the smaller identifier has a timestamp that is not
\* later, also when the sends that stored them overlap.
C21_TimestampsFollowIds ==
    \A m1, m2 \in messages :
        m1.id < m2.id => m1.created_at <= m2.created_at

\* two sends overlap, both suspended in their push, and the second was
\* stored at a later reading of the clock than the first
C21_Witness ==
    \E t1, t2 \in sendTasks :
        /\ t1.msg.id < t2.msg.id
        /\ t1.msg.created_at < t2.msg.created_at
        /\ t1.msg \in messages /\ t2.msg \in messages


\* C22: on a successful send the presence lookup follows the commit and the
\* push matches the lookup: if the receiver has an entry in the presence
\* dict, exactly one receive_message is pushed, to the handle of that entry,
\* with the authenticated sender, the stored content and the stored
\* timestamp, and the message is already stored; if the receiver has no
\* entry, or the send stored nothing, nothing is pushed.
C22_PushMatchesLookup ==
    [][last'.op = "send_message_api" =>
        \A token \in {last'.who}, receiverId \in {last'.arg}, content \in Bodies,
           now \in 1..MaxClock :
            send_message_api(token, receiverId, content, now) =>
                IF messages' # messages /\ (\E p \in connected_users : p[1] = receiverId)
                THEN /\ Len(emits') = 1
                     /\ emits'[1].event = "receive_message"
                     /\ <<receiverId, emits'[1].to>> \in connected_users
                     /\ \E m \in messages' \ messages :
                           /\ m.sender_id = token
                           /\ token \in users
                           /\ emits'[1].senderId = m.sender_id
                           /\ emits'[1].content = m.content
                           /\ emits'[1].timestamp = m.created_at
                ELSE emits' = NoEmits
    ]_vars

\* a send has pushed to the handle of its receiver while another user is
\* online on another handle
C22_Witness ==
    /\ last.op = "send_message_api"
    /\ Len(emits) = 1
    /\ emits[1].event = "receive_message"
    /\ <<last.arg, emits[1].to>> \in connected_users
    /\ \E p \in connected_users : p[1] # last.arg /\ p[2] # emits[1].to


\* the ids of the rows that are unread before the step and read after it
SwitchedIds == {m.id : m \in {r \in messages :
                    r.is_read = 0 /\ \E n \in messages' : n.id = r.id /\ n.is_read = 1}}

\* C23: markRead is atomic per invocation: the rows one invocation matched
\* become read in a single step, so that no findConversation, summarize or
\* other markRead sees only some of them switched; no row is switched by any
\* other step of the invocation, and none when the invocation fails.
C23_MarkReadAtomic ==
    [][/\ MarkReadStep =>
            \A task \in markTasks \ markTasks' :
                /\ \A m \in messages' : m.id \in task.ids => m.is_read = 1
                /\ SwitchedIds \subseteq task.ids
       /\ ~MarkReadStep => SwitchedIds = {}
       /\ last'.op = "mark_read_fails" =>
            /\ messages' = messages
            /\ response'.status # 200
    ]_vars

\* a commit has switched two rows at once while another mark-read call is
\* between its query and its commit
C23_Witness ==
    /\ last.op = "mark_read_commit"
    /\ response.body.count = 2
    /\ markTasks # {}
    /\ \A m \in messages : m.is_read = 1

\* C24: the count a markRead returns is the number of rows that invocation
\* switched from unread to read, also when two calls for the same pair
\* overlap: each message is counted by one of them at most.
C24_CountIsRowsAffected ==
    [][MarkReadStep => response'.body.count = Cardinality(SwitchedIds)]_vars


C26_TransientPathAuthenticated ==
    last.op = "send_message" =>
        \A i \in DOMAIN emits :
            emits[i].event = "receive_message" =>
                <<emits[i].senderId, last.who>> \in connected_users


\* the handlers and handler steps that are no connection lifecycle event
NotLifecycle ==
    {"connect", "send_message", "send_message_api", "send_emit_returns",
     "send_emit_raises", "get_messages", "get_conversations",
     "mark_read_query", "mark_read_commit", "mark_read_fails"}

\* C27: only connection lifecycle events change the presence dict: send
\* (successful or failed), the send_message event, findConversation,
\* summarize and markRead leave it unchanged, connect is a no-op on it, an
\* entry of a user appears or changes only by an authenticate event naming
\* that user and that handle, and entries go only by a disconnect of their
\* handle, a re-authentication or a restart.
C27_OnlyLifecycleMutatesPresence ==
    [][/\ last'.op \in NotLifecycle => connected_users' = connected_users
       /\ \A p \in connected_users' \ connected_users :
            /\ last'.op = "authenticate"
            /\ last'.who = p[2]
            /\ last'.arg = p[1]
       /\ \A p \in connected_users \ connected_users' :
            \/ last'.op = "disconnect" /\ last'.who = p[2]
            \/ last'.op = "authenticate" /\ last'.arg = p[1]
            \/ last'.op = "restart"
    ]_vars

\* a REST handler that writes the table has run, a mark-read commit, and the
\* dict still holds every user
C27_Witness ==
    /\ last.op = "mark_read_commit"
    /\ Cardinality(connected_users) = NumUsers
    /\ \E m \in messages : m.is_read = 1


\* C28: a push that blocks does not stall unrelated sends: while one send
\* is suspended in its push, a send between another sender and receiver can
\* store its message, do its own presence lookup and return (or start its
\* own push), leaving the suspended send as it is; and the presence dict is
\* not locked meanwhile: authenticate and disconnect can run.
C28_BlockedPushDoesNotStall ==
    (last = NoCall /\ sendTasks # {}) =>
        /\ \A sid \in Sids, userId \in users :
              /\ ENABLED (/\ Authenticate(sid, userId)
                          /\ <<userId, sid>> \in connected_users')
              /\ ENABLED Disconnect(sid)
        /\ Cardinality(messages) < MaxMessages =>
              \A task \in sendTasks, token \in users, receiverId \in users :
                  (token # task.msg.sender_id /\ receiverId # task.msg.receiver_id) =>
                      ENABLED (/\ send_message_api(token, receiverId, "a", clock)
                               /\ Cardinality(messages') = Cardinality(messages) + 1
                               /\ sendTasks \subseteq sendTasks'
                               /\ IF Online(connected_users, receiverId)
                                  THEN Len(emits') = 1
                                  ELSE response'.status = 200)

\* a send has stored its message and returned while a send of another
\* sender to another receiver is still suspended in its push
C28_Witness ==
    /\ last.op = "send_message_api"
    /\ response.status = 200
    /\ \E task \in sendTasks :
        /\ task.msg.sender_id # last.who
        /\ task.msg.receiver_id # last.arg
    /\ \E m \in messages : response.body = MessageDict(m)


\* C29: the sender of every stored message is the identity the
\* authentication check returned for the call that stored it: a send stores
\* at most one row, its sender is the existing user its token names whatever
\* receiver and content the body carries, no other step adds a row or
\* changes a sender, and a send without a valid credential is answered 401
\* and stores nothing.
C29_SenderIsAuthenticatedCaller ==
    [][/\ last'.op = "send_message_api" =>
            \A token \in Tokens, receiverId \in {last'.arg}, content \in Bodies,
               now \in 1..MaxClock :
                send_message_api(token, receiverId, content, now) =>
                    /\ Cardinality(messages' \ messages) <= 1
                    /\ \A m \in messages' \ messages :
                          /\ m.sender_id = token
                          /\ token \in users
                          /\ m.receiver_id = receiverId
                    /\ (token = Falsy \/ token \notin users) =>
                          /\ messages' = messages
                          /\ response'.status = 401
                          /\ emits' = NoEmits
       /\ last'.op # "send_message_api" =>
            \A m \in messages' : \E n \in messages :
                n.id = m.id /\ n.sender_id = m.sender_id
       /\ \A m \in messages' : m.sender_id \in users
    ]_vars

\* user 2 has stored a message to user 1 after user 1 stored one: each row
\* carries its caller as sender
C29_Witness ==
    /\ last.op = "send_message_api"
    /\ last.who = 2
    /\ response.status = 200
    /\ response.body.senderId = 2
    /\ \E m \in messages : m.sender_id = 1 /\ m.id < response.body.id


\* C30: reading is free of side effects: get_messages and get_conversations
\* leave every stored message, every read flag included, as it is, and
\* change nothing else; unread messages stay unread until a mark-read
\* commits.
C30_ReadsChangeNothing ==
    [][/\ last'.op \in {"get_messages", "get_conversations"} =>
            /\ messages' = messages
            /\ connected_users' = connected_users
            /\ sendTasks' = sendTasks
            /\ markTasks' = markTasks
            /\ clock' = clock
            /\ emits' = NoEmits
       /\ \A m \in messages, n \in messages' :
            (m.id = n.id /\ m.is_read = 0 /\ n.is_read = 1)
                => last'.op = "mark_read_commit"
    ]_vars

\* the receiver has fetched a conversation and got a message that is still
\* unread in the table
C30_Witness ==
    /\ last.op = "get_messages"
    /\ response.status = 200
    /\ \E i \in DOMAIN response.body :
        /\ response.body[i].receiverId = last.who
        /\ response.body[i].isRead = 0
        /\ \E m \in messages : m.id = response.body[i].id /\ m.is_read = 0
    /\ \E m \in messages : m.is_read = 1

====
